---- MODULE Spec2Model ----
(***************************************************************************)
(* The outbound invocation and result-logging pipeline: testApi and its    *)
(* collaborators (the workflow_logs table of the Record Store, the remote  *)
(* worker API reached through fetch, and logError).                        *)
(*                                                                         *)
(* Every await of testApi is one step of the invocation; the invocations   *)
(* of Procs interleave at these steps, as concurrent calls of an async     *)
(* function do.  The collaborators answer nondeterministically: the remote *)
(* API with any response of Responses or a network failure, the store with *)
(* any outcome of StoreOutcomes.                                           *)
(***************************************************************************)
EXTENDS Naturals, Sequences, FiniteSets, Bags, TLC

\* ---------------------------------------------------------------- bounds
\* Number of calls of testApi made in one behaviour.
MaxCalls == 2

\* ---------------------------------------------------------------- values
\* The concurrent callers of testApi.
Procs == {"A", "B"}

\* How a call of the Record Store ends: done ("ok"), refused with an error in
\* the returned result, which testApi never reads ("refused"), or a rejected
\* promise ("throw").
StoreOutcomes == {"ok", "refused", "throw"}

\* JavaScript's undefined (an absent optional parameter, an absent property).
Undefined == "<undefined>"

\* JavaScript truthiness of a string-or-undefined value.
Truthy(v) == v # Undefined /\ v # ""

\* a || b
Or(a, b) == IF Truthy(a) THEN a ELSE b

WorkflowIds == {"w1", "w2"}
\* The <<workerId, apiAuthToken>> pairs callers pass: configured, or with one
\* or both of them empty or left at the placeholder.
CredentialArgs ==
  { <<"wk", "tok">>,
    <<"", "tok">>, <<"your-worker-id", "tok">>,
    <<"wk", "">>, <<"wk", "your-auth-token">>,
    <<"", "your-auth-token">> }
WorkflowIdArgs == {Undefined} \cup WorkflowIds
VariableArgs ==
  { [request |-> "hi"],
    [request |-> "hi", workflow |-> ""],
    [request |-> "hi", workflow |-> "x"] }

\* variables.workflow
VarWorkflow(variables) ==
  IF "workflow" \in DOMAIN variables THEN variables["workflow"] ELSE Undefined

\* The one call the form describes (apiConfig).
ApiConfig ==
  [method |-> "post",
   url |-> "https://api.mindstudio.ai/developer/v2/workers/run",
   content_type |-> "application/json"]

SuccessMessage == "API request successful"

\* Error objects: the constructor's name, the message, and the status
\* property, which no constructor call of the pipeline sets.
Err(name, message) == [name |-> name, message |-> message, status |-> Undefined]
NoError == Err("<none>", "")

\* new ApiError(message).  ApiError is declared as an interface only, so the
\* expression has no defined value: a build that erases types raises a
\* ReferenceError at this point, one that supplies a class raises the ApiError.
NewApiError(message) ==
  { Err("ApiError", message),
    Err("ReferenceError", "ApiError is not defined") }

NetworkError == Err("TypeError", "Failed to fetch")
JsonError == Err("SyntaxError", "Unexpected token < in JSON")
NullReadError == Err("TypeError", "Cannot read properties of null")
StoreError == Err("StoreError", "store call rejected")

\* Decoded JSON bodies: null, or an object with some of the probed fields.
JsonNull == [kind |-> "null"]
JsonObject(fields) == [kind |-> "object", fields |-> fields]
NoData == [kind |-> "<none>"]

\* What the body of a response holds: text that is not JSON, or JSON.
NotJson == [kind |-> "notjson"]
Bodies ==
  { NotJson,
    JsonNull,
    JsonObject(<<>>),
    JsonObject([result |-> "ok"]),
    JsonObject([message |-> SuccessMessage]) }

StatusTexts == [s \in {200, 500} |-> IF s = 200 THEN "OK" ELSE "Internal Server Error"]

\* Every status taken for a success.
Ok_Always(status) == TRUE

\* response.ok
Ok(status) == status >= 200 /\ status <= 299

Responses ==
  { [status |-> s, statusText |-> StatusTexts[s], body |-> b] :
      s \in DOMAIN StatusTexts, b \in Bodies }
NoResponse == [status |-> 0, statusText |-> "", body |-> NoData]

\* A row of workflow_logs.
Row(workflow_id, level, message) ==
  [workflow_id |-> workflow_id, level |-> level, message |-> message]

\* The contents workflow_logs can have when the first call is made.
InitialStores ==
  { EmptyBag,
    SetToBag({Row("w1", "info", SuccessMessage)}),
    SetToBag({Row("w1", "info", SuccessMessage)}) (+)
      SetToBag({Row("w1", "info", SuccessMessage)}),
    SetToBag({Row("w1", "error", "Failed to fetch"), Row("w2", "info", SuccessMessage)}) }

VARIABLES
  workflow_logs,  \* the table: a bag of rows
  pc,             \* pc[p]: where invocation p stands
  req,            \* req[p]: the parameters of the call
  response,       \* response[p]: what fetch resolved to
  data,           \* data[p]: what response.json() resolved to
  error,          \* error[p]: the error the catch clause caught
  outcome,        \* outcome[p]: what the caller of testApi got
  calls,          \* calls[p]: the collaborator calls invocation p made: the
                  \* deletes and fetches (counted), the inserts (each with
                  \* the block that made it) and the logError entries
  started,        \* number of calls of testApi so far
  history,        \* history[w]: what has happened to workflow w so far
  workflows,      \* workflows[id]: the row of the workflows table, as saved
                  \* by WorkflowForm
  form,           \* the state of the open WorkflowForm
  toasts,         \* the notifications shown, oldest first
  handled         \* the error handleApiError was given and the one it threw

vars ==
  <<workflow_logs, pc, req, response, data, error, outcome, calls, started, history,
    workflows, form, toasts, handled>>

\* What WorkflowForm and handleApiError own; testApi touches none of it.
uiVars == <<workflows, form, toasts, handled>>

NoReq ==
  [workerId |-> "", apiAuthToken |-> "", variables |-> <<>>, workflowId |-> Undefined]
NoOutcome == [kind |-> "pending", error |-> NoError, response |-> Undefined]
NoCalls ==
  [deletes |-> 0, fetches |-> 0, authorization |-> Undefined,
   inserts |-> <<>>, logs |-> <<>>]
NoHandled == [error |-> NoError, thrown |-> NoError]
NoWorkflow == [name |-> Undefined, worker_id |-> Undefined, api_auth_token |-> Undefined]
\* The form as it opens for a new workflow: the useState defaults.
NewForm ==
  [workflow |-> Undefined, name |-> Undefined, workerId |-> "", apiAuthToken |-> "",
   variables |-> <<"request">>, testingApi |-> FALSE]

Raised(e) == [kind |-> "raised", error |-> e, response |-> Undefined]
\* return { success: true, data: { response: text } }
Returned(text) ==
  [kind |-> "returned", error |-> NoError, success |-> TRUE, response |-> text]

InFlight(p) == pc[p] \notin {"idle", "done"}

Init ==
  /\ workflow_logs \in InitialStores
  /\ pc = [p \in Procs |-> "idle"]
  /\ req = [p \in Procs |-> NoReq]
  /\ response = [p \in Procs |-> NoResponse]
  /\ data = [p \in Procs |-> NoData]
  /\ error = [p \in Procs |-> NoError]
  /\ outcome = [p \in Procs |-> NoOutcome]
  /\ calls = [p \in Procs |-> NoCalls]
  /\ started = 0
  /\ history = [w \in WorkflowIds |-> "none"]
  /\ workflows = [id \in WorkflowIds |-> NoWorkflow]
  /\ form = NewForm
  /\ toasts = <<>>
  /\ handled = NoHandled

\* ------------------------------------------------- the code's decisions
\* The check without the placeholder comparison.
WorkerIdMissing_EmptyOnly(workerId) == ~Truthy(workerId)

\* !workerId || workerId === 'your-worker-id'
WorkerIdMissing(workerId) == ~Truthy(workerId) \/ workerId = "your-worker-id"

\* !apiAuthToken || apiAuthToken === 'your-auth-token'
AuthTokenMissing(apiAuthToken) ==
  ~Truthy(apiAuthToken) \/ apiAuthToken = "your-auth-token"

\* s.startsWith(prefix)
StartsWith(s, prefix) ==
  Len(s) >= Len(prefix) /\ SubSeq(s, 1, Len(prefix)) = prefix

\* The header with the prefix put in front of every token.
AuthorizationHeader_AlwaysPrefixed(apiAuthToken) == "Bearer " \o apiAuthToken

\* apiAuthToken.startsWith('Bearer ') ? apiAuthToken : `Bearer ${apiAuthToken}`
AuthorizationHeader(apiAuthToken) ==
  IF StartsWith(apiAuthToken, "Bearer ") THEN apiAuthToken
  ELSE "Bearer " \o apiAuthToken

\* The pre-clear left out.
ShouldPreClear_Never(workflowId) == FALSE

\* if (workflowId), before the request
ShouldPreClear(workflowId) == Truthy(workflowId)

\* The filter without the workflow.
PreClearMatches_AnyWorkflow(row, workflowId) == row.message = SuccessMessage

\* The filter with a third condition, on the level.
PreClearMatches_InfoOnly(row, workflowId) ==
  row.workflow_id = workflowId /\ row.message = SuccessMessage /\ row.level = "info"

\* .eq('workflow_id', workflowId).eq('message', 'API request successful')
PreClearMatches(row, workflowId) ==
  row.workflow_id = workflowId /\ row.message = SuccessMessage

\* data.<field> of a decoded object
Field(d, name) ==
  IF d.kind = "object" /\ name \in DOMAIN d.fields THEN d.fields[name] ELSE Undefined

\* The probing with message tried before response.
ResponseText_MessageFirst(d) ==
  Or(Or(Or(Field(d, "result"), Field(d, "responseText")), Field(d, "message")),
     Field(d, "response"))

\* data.result || data.responseText || data.response || data.message
ResponseText(d) ==
  Or(Or(Or(Field(d, "result"), Field(d, "responseText")), Field(d, "response")),
     Field(d, "message"))

\* `API request failed: ${response.statusText}`
FailedMessage(resp) == "API request failed: " \o resp.statusText

\* The condition without the test of workflowId.
ShouldAudit_AnyWorkflowId(workflowId, ok, variables) ==
  ~ok \/ VarWorkflow(variables) = Undefined

\* workflowId && (!response.ok || variables.workflow === undefined)
ShouldAudit(workflowId, ok, variables) ==
  Truthy(workflowId) /\ (~ok \/ VarWorkflow(variables) = Undefined)

\* The row of the insert after the response was decoded.
AuditRow(workflowId, resp) ==
  Row(workflowId,
      IF Ok(resp.status) THEN "info" ELSE "error",
      IF Ok(resp.status) THEN SuccessMessage ELSE FailedMessage(resp))

\* data.message || `API request failed: ${response.statusText}`
RejectionMessage(d, resp) == Or(Field(d, "message"), FailedMessage(resp))

\* responseText || data.result || 'No response received'
ResultResponse(d) == Or(Or(ResponseText(d), Field(d, "result")), "No response received")

\* error instanceof Error
InstanceOfError(e) ==
  e.name \in {"Error", "ApiError", "ReferenceError", "TypeError", "SyntaxError",
              "StoreError"}

\* The context without the worker.
LogContext_NoWorkerId(r) == [url |-> ApiConfig.url, method |-> ApiConfig.method]

\* logError's context: { workerId, url, method }
LogContext(r) ==
  [workerId |-> r.workerId, url |-> ApiConfig.url, method |-> ApiConfig.method]

\* logError that writes nothing.
logError_Silent(log, context, e) == log

\* logError({ context, error }): one console.error entry
logError(log, context, e) ==
  Append(log,
         [message |-> IF InstanceOfError(e) THEN e.message ELSE "An unknown error occurred",
          context |-> context])

\* The condition without the test of the variables.
ShouldAuditFailure_AnyVariables(workflowId, variables) == Truthy(workflowId)

\* workflowId && variables.workflow !== undefined, in the catch clause
ShouldAuditFailure(workflowId, variables) ==
  Truthy(workflowId) /\ VarWorkflow(variables) # Undefined

\* The row with the fixed message in place of the error's.
FailureRow_FixedMessage(workflowId, e) ==
  Row(workflowId, "error", "Failed to connect to MindStudio API")

\* The row of the insert of the catch clause.
FailureRow(workflowId, e) ==
  Row(workflowId, "error",
      IF InstanceOfError(e) THEN e.message ELSE "Failed to connect to MindStudio API")

\* What the catch clause throws once its own work is done: throw error.
Rethrown(e) == e

\* The request made again after it failed.
OnFetchRejected_Retry == "fetch"

\* Where control goes when fetch rejects: the catch clause of the try block
\* around it; no loop encloses the request.
OnFetchRejected == "catch"

\* -------------------------------------------------------- the store
\* delete().eq(...).eq(...): the table without the matching rows.
DeleteWhere(table, workflowId) ==
  LET keep == {r \in DOMAIN table : ~PreClearMatches(r, workflowId)}
  IN  [r \in keep |-> table[r]]

\* insert(row)
Insert(table, row) == table (+) SetToBag({row})

\* ----------------------------------------------- what has happened so far
\* A store call for workflow w ended with outcome o.
NoteStore(h, w, o) ==
  IF w \in WorkflowIds /\ o # "ok" THEN [h EXCEPT ![w] = "dirty"] ELSE h

\* An invocation for workflow w has completed; passed: past the preconditions.
NoteDone(h, w, passed) ==
  IF w \notin WorkflowIds \/ h[w] = "dirty" THEN h
  ELSE IF passed THEN [h EXCEPT ![w] = "cleared"]
  ELSE IF h[w] = "none" THEN [h EXCEPT ![w] = "rejected"]
  ELSE h

\* Invocation p enters the pipeline for workflow w.
NoteEnter(h, p, w) ==
  IF w \in WorkflowIds /\ \E q \in Procs \ {p} : InFlight(q) /\ req[q].workflowId = w
  THEN [h EXCEPT ![w] = "dirty"]
  ELSE h

\* ----------------------------------------------------------- testApi
\* The call and the two precondition checks, which run before the try block.
DoTestApi(p, workerId, apiAuthToken, variables, workflowId) ==
  /\ pc[p] \in {"idle", "done"}
  /\ started < MaxCalls
  /\ started' = started + 1
  /\ req' = [req EXCEPT ![p] =
               [workerId |-> workerId, apiAuthToken |-> apiAuthToken,
                variables |-> variables, workflowId |-> workflowId]]
  /\ IF WorkerIdMissing(workerId)
     THEN \E e \in NewApiError("Worker ID is not configured") :
            /\ outcome' = [outcome EXCEPT ![p] = Raised(e)]
            /\ pc' = [pc EXCEPT ![p] = "done"]
            /\ history' = NoteDone(history, workflowId, FALSE)
     ELSE IF AuthTokenMissing(apiAuthToken)
     THEN \E e \in NewApiError("API authentication token is not configured") :
            /\ outcome' = [outcome EXCEPT ![p] = Raised(e)]
            /\ pc' = [pc EXCEPT ![p] = "done"]
            /\ history' = NoteDone(history, workflowId, FALSE)
     ELSE /\ outcome' = [outcome EXCEPT ![p] = NoOutcome]
          /\ pc' = [pc EXCEPT ![p] = "preclear"]
          /\ history' = NoteEnter(history, p, workflowId)
  /\ response' = [response EXCEPT ![p] = NoResponse]
  /\ data' = [data EXCEPT ![p] = NoData]
  /\ error' = [error EXCEPT ![p] = NoError]
  /\ calls' = [calls EXCEPT ![p] = NoCalls]
  /\ UNCHANGED workflow_logs

\* testApi called by a caller that is not the form.
TestApi(p, workerId, apiAuthToken, variables, workflowId) ==
  /\ DoTestApi(p, workerId, apiAuthToken, variables, workflowId)
  /\ UNCHANGED uiVars

\* if (workflowId) { await supabase.from('workflow_logs').delete()... }
\* o: how the store ends the delete.
PreClear(p, o) ==
  /\ pc[p] = "preclear"
  /\ IF ShouldPreClear(req[p].workflowId)
     THEN /\ calls' = [calls EXCEPT ![p].deletes = @ + 1]
          /\ workflow_logs' =
               IF o = "ok" THEN DeleteWhere(workflow_logs, req[p].workflowId)
               ELSE workflow_logs
          /\ history' = NoteStore(history, req[p].workflowId, o)
          /\ IF o = "throw"
             THEN /\ error' = [error EXCEPT ![p] = StoreError]
                  /\ pc' = [pc EXCEPT ![p] = "catch"]
             ELSE /\ pc' = [pc EXCEPT ![p] = "fetch"]
                  /\ UNCHANGED error
     ELSE /\ pc' = [pc EXCEPT ![p] = "fetch"]
          /\ UNCHANGED <<calls, workflow_logs, history, error>>
  /\ UNCHANGED <<req, response, data, outcome, started>>
  /\ UNCHANGED uiVars

\* const response = await fetch(apiConfig.url, {...})
\* r: the response, or NoResponse when the request fails in the network.
Fetch(p, r) ==
  /\ pc[p] = "fetch"
  /\ calls' = [calls EXCEPT ![p].fetches = @ + 1,
                            ![p].authorization =
                              AuthorizationHeader(req[p].apiAuthToken)]
  /\ IF r = NoResponse
     THEN /\ error' = [error EXCEPT ![p] = NetworkError]
          /\ pc' = [pc EXCEPT ![p] = OnFetchRejected]
          /\ UNCHANGED response
     ELSE /\ response' = [response EXCEPT ![p] = r]
          /\ pc' = [pc EXCEPT ![p] = "json"]
          /\ UNCHANGED error
  /\ UNCHANGED <<workflow_logs, req, data, outcome, started, history>>
  /\ UNCHANGED uiVars

\* const data = await response.json()
ResponseJson(p) ==
  /\ pc[p] = "json"
  /\ IF response[p].body = NotJson
     THEN /\ error' = [error EXCEPT ![p] = JsonError]
          /\ pc' = [pc EXCEPT ![p] = "catch"]
          /\ UNCHANGED data
     ELSE /\ data' = [data EXCEPT ![p] = response[p].body]
          /\ pc' = [pc EXCEPT ![p] = "audit"]
          /\ UNCHANGED error
  /\ UNCHANGED <<workflow_logs, req, response, outcome, calls, started, history>>
  /\ UNCHANGED uiVars

\* The rest of the try block once the insert, if any, has answered: the
\* non-2xx throw or the return.
Conclude(p, h) ==
  IF ~Ok(response[p].status)
  THEN \E e \in NewApiError(RejectionMessage(data[p], response[p])) :
         /\ error' = [error EXCEPT ![p] = e]
         /\ pc' = [pc EXCEPT ![p] = "catch"]
         /\ history' = h
         /\ UNCHANGED outcome
  ELSE /\ outcome' = [outcome EXCEPT ![p] = Returned(ResultResponse(data[p]))]
       /\ pc' = [pc EXCEPT ![p] = "done"]
       /\ history' = NoteDone(h, req[p].workflowId, TRUE)
       /\ UNCHANGED error

\* From the read of data.result to the return: the conditional audit insert,
\* the non-2xx throw, the result.  o: how the store ends the insert.
DoAudit(p, o) ==
  /\ pc[p] = "audit"
  /\ IF data[p] = JsonNull
     THEN /\ error' = [error EXCEPT ![p] = NullReadError]
          /\ pc' = [pc EXCEPT ![p] = "catch"]
          /\ UNCHANGED <<workflow_logs, calls, outcome, history>>
     ELSE IF ShouldAudit(req[p].workflowId, Ok(response[p].status), req[p].variables)
     THEN LET row == AuditRow(req[p].workflowId, response[p])
              h == NoteStore(history, req[p].workflowId, o)
          IN  /\ calls' = [calls EXCEPT ![p].inserts =
                             Append(@, [site |-> "try", row |-> row])]
              /\ workflow_logs' =
                   IF o = "ok" THEN Insert(workflow_logs, row) ELSE workflow_logs
              /\ IF o = "throw"
                 THEN /\ error' = [error EXCEPT ![p] = StoreError]
                      /\ pc' = [pc EXCEPT ![p] = "catch"]
                      /\ history' = h
                      /\ UNCHANGED outcome
                 ELSE Conclude(p, h)
     ELSE /\ Conclude(p, history)
          /\ UNCHANGED <<workflow_logs, calls>>
  /\ UNCHANGED <<req, response, data, started>>

\* The same for a caller that is not the form.
Audit(p, o) ==
  /\ DoAudit(p, o)
  /\ UNCHANGED uiVars

\* catch (error) { logError(...); conditional insert; throw error; }
\* o: how the store ends the insert.
DoCatch(p, o) ==
  /\ pc[p] = "catch"
  /\ pc' = [pc EXCEPT ![p] = "done"]
  /\ LET logged == [calls EXCEPT ![p].logs = logError(@, LogContext(req[p]), error[p])]
     IN  IF ShouldAuditFailure(req[p].workflowId, req[p].variables)
         THEN LET row == FailureRow(req[p].workflowId, error[p])
              IN  /\ calls' = [logged EXCEPT ![p].inserts =
                                 Append(@, [site |-> "catch", row |-> row])]
                  /\ workflow_logs' =
                       IF o = "ok" THEN Insert(workflow_logs, row) ELSE workflow_logs
                  /\ outcome' = [outcome EXCEPT ![p] =
                                   Raised(IF o = "throw" THEN StoreError
                                          ELSE Rethrown(error[p]))]
                  /\ history' = NoteDone(NoteStore(history, req[p].workflowId, o),
                                         req[p].workflowId, TRUE)
         ELSE /\ calls' = logged
              /\ outcome' = [outcome EXCEPT ![p] = Raised(Rethrown(error[p]))]
              /\ history' = NoteDone(history, req[p].workflowId, TRUE)
              /\ UNCHANGED workflow_logs
  /\ UNCHANGED <<req, response, data, error, started>>

\* The same for a caller that is not the form.
Catch(p, o) ==
  /\ DoCatch(p, o)
  /\ UNCHANGED uiVars

\* One caller, whose calls of testApi follow one another.
Next ==
  \E p \in {"A"} :
    \/ \E c \in CredentialArgs, variables \in VariableArgs,
          workflowId \in WorkflowIdArgs :
         TestApi(p, c[1], c[2], variables, workflowId)
    \/ \E o \in StoreOutcomes : PreClear(p, o)
    \/ \E r \in Responses \cup {NoResponse} : Fetch(p, r)
    \/ ResponseJson(p)
    \/ \E o \in StoreOutcomes : Audit(p, o)
    \/ \E o \in StoreOutcomes : Catch(p, o)

Spec == Init /\ [][Next]_vars

\* A collaborator answers the call the invocation is waiting on, and testApi
\* runs to its next await, its return or its throw.
Answer ==
  \E p \in {"A"} :
    \/ \E o \in StoreOutcomes : PreClear(p, o)
    \/ \E r \in Responses \cup {NoResponse} : Fetch(p, r)
    \/ ResponseJson(p)
    \/ \E o \in StoreOutcomes : Audit(p, o)
    \/ \E o \in StoreOutcomes : Catch(p, o)

\* One caller, calling with or without a workflow, with good or missing
\* credentials; every collaborator call eventually answers.
NextFair ==
  \/ \E c \in {<<"wk", "tok">>, <<"", "tok">>, <<"wk", "your-auth-token">>},
        variables \in {[request |-> "hi"], [request |-> "hi", workflow |-> "x"]},
        workflowId \in {Undefined, "w1"} :
       TestApi("A", c[1], c[2], variables, workflowId)
  \/ Answer

SpecFair == Init /\ [][NextFair]_vars /\ WF_vars(Answer)

\* ------------------------------------------------ overlapping callers
\* What the remote API answers to the overlapping callers.
ConcurrentResponses ==
  { [status |-> 200, statusText |-> StatusTexts[200], body |-> JsonObject([result |-> "ok"])],
    [status |-> 500, statusText |-> StatusTexts[500], body |-> JsonObject(<<>>)],
    [status |-> 500, statusText |-> StatusTexts[500],
     body |-> JsonObject([message |-> SuccessMessage])] }

\* Two callers whose invocations overlap, for the same workflow or for
\* different ones, against a store that carries out every call.
NextConcurrent ==
  \E p \in Procs :
    \/ \E variables \in {[request |-> "hi"], [request |-> "hi", workflow |-> "x"]},
          workflowId \in WorkflowIdArgs :
         TestApi(p, "wk", "tok", variables, workflowId)
    \/ PreClear(p, "ok")
    \/ \E r \in ConcurrentResponses \cup {NoResponse} : Fetch(p, r)
    \/ ResponseJson(p)
    \/ Audit(p, "ok")
    \/ Catch(p, "ok")

SpecConcurrent == Init /\ [][NextConcurrent]_vars

\* ------------------------------------------------------- WorkflowForm
\* Number of notifications shown in one behaviour.
MaxToasts == 2

\* What is typed into the Authorization field.
TokenArgs == {"", "abc", "Bearer abc", " Bearer abc", "Bearer "}

RECURSIVE TrimStart(_)
TrimStart(s) ==
  IF Len(s) > 0 /\ SubSeq(s, 1, 1) = " " THEN TrimStart(SubSeq(s, 2, Len(s))) ELSE s

RECURSIVE TrimEnd(_)
TrimEnd(s) ==
  IF Len(s) > 0 /\ SubSeq(s, Len(s), Len(s)) = " "
  THEN TrimEnd(SubSeq(s, 1, Len(s) - 1))
  ELSE s

\* v?.trim()
Trim(v) == IF v = Undefined THEN Undefined ELSE TrimEnd(TrimStart(v))

RECURSIVE Join(_)
\* missingFields.join(', ')
Join(names) ==
  IF Len(names) = 0 THEN ""
  ELSE IF Len(names) = 1 THEN names[1]
  ELSE names[1] \o ", " \o Join(Tail(names))

\* The mandatory fields onSubmit finds missing, in the order it checks them.
MissingFields(f) ==
  (IF ~Truthy(Trim(f.name)) THEN <<"Workflow Name">> ELSE <<>>) \o
  (IF ~Truthy(Trim(f.workerId)) THEN <<"Worker ID">> ELSE <<>>) \o
  (IF ~Truthy(Trim(f.apiAuthToken)) THEN <<"Authorization">> ELSE <<>>) \o
  (IF Len(f.variables) = 0 THEN <<"At least one variable">> ELSE <<>>)

\* api_auth_token: apiAuthToken.trim().startsWith('Bearer ')
\*   ? apiAuthToken.trim() : `Bearer ${apiAuthToken.trim()}`
StoredToken(apiAuthToken) ==
  IF StartsWith(Trim(apiAuthToken), "Bearer ") THEN Trim(apiAuthToken)
  ELSE "Bearer " \o Trim(apiAuthToken)

\* workflowData, as far as the pipeline reads it.
WorkflowData(f) ==
  [name |-> f.name, worker_id |-> Trim(f.workerId),
   api_auth_token |-> StoredToken(f.apiAuthToken)]

Toast(kind, message) == [kind |-> kind, message |-> message]

\* The form opens: for a new workflow (w undefined) or for a saved one, whose
\* row the effect copies into the fields.
OpenForm(w) ==
  /\ w = Undefined \/ (w \in WorkflowIds /\ workflows[w] # NoWorkflow)
  /\ form' = IF w = Undefined THEN NewForm
             ELSE [workflow |-> w, name |-> workflows[w].name,
                   workerId |-> Or(Trim(workflows[w].worker_id), ""),
                   apiAuthToken |-> Or(Trim(workflows[w].api_auth_token), ""),
                   variables |-> <<"request">>, testingApi |-> FALSE]
  /\ UNCHANGED <<workflow_logs, pc, req, response, data, error, outcome, calls,
                 started, history, workflows, toasts, handled>>

\* register('name'), setWorkerId(e.target.value), setApiAuthToken(e.target.value)
SetName(v) ==
  /\ form' = [form EXCEPT !.name = v]
  /\ UNCHANGED <<workflow_logs, pc, req, response, data, error, outcome, calls,
                 started, history, workflows, toasts, handled>>

SetWorkerId(v) ==
  /\ form' = [form EXCEPT !.workerId = v]
  /\ UNCHANGED <<workflow_logs, pc, req, response, data, error, outcome, calls,
                 started, history, workflows, toasts, handled>>

SetApiAuthToken(v) ==
  /\ form' = [form EXCEPT !.apiAuthToken = v]
  /\ UNCHANGED <<workflow_logs, pc, req, response, data, error, outcome, calls,
                 started, history, workflows, toasts, handled>>

\* onSubmit.  user: whether supabase.auth.getUser() names a user; o: how the
\* store ends the update or insert; id: the id the store gives a new row.
OnSubmit(user, o, id) ==
  /\ Len(toasts) < MaxToasts
  /\ LET missing == MissingFields(form)
     IN  IF Len(missing) > 0
         THEN /\ toasts' = Append(toasts, Toast("error",
                               "Missing required fields: " \o Join(missing)))
              /\ UNCHANGED workflows
         ELSE IF ~user
         THEN /\ toasts' = Append(toasts, Toast("error", "User not authenticated"))
              /\ UNCHANGED workflows
         ELSE IF o # "ok"
         THEN /\ toasts' = Append(toasts, Toast("error", StoreError.message))
              /\ UNCHANGED workflows
         ELSE /\ IF form.workflow # Undefined
                 THEN workflows' = [workflows EXCEPT ![form.workflow] = WorkflowData(form)]
                 ELSE /\ workflows[id] = NoWorkflow
                      /\ workflows' = [workflows EXCEPT ![id] = WorkflowData(form)]
              /\ toasts' = Append(toasts, Toast("success",
                                    IF form.workflow # Undefined THEN "Workflow updated"
                                    ELSE "Workflow created"))
  /\ UNCHANGED <<workflow_logs, pc, req, response, data, error, outcome, calls,
                 started, history, form, handled>>

\* The variables handleTestApi passes: the form's, and workflow: watch('name') || ''
TestVariables(f) == [request |-> "request", workflow |-> Or(f.name, "")]

\* A form whose name and worker fields are filled in, and an empty log.
InitToken ==
  /\ workflow_logs = EmptyBag
  /\ pc = [p \in Procs |-> "idle"]
  /\ req = [p \in Procs |-> NoReq]
  /\ response = [p \in Procs |-> NoResponse]
  /\ data = [p \in Procs |-> NoData]
  /\ error = [p \in Procs |-> NoError]
  /\ outcome = [p \in Procs |-> NoOutcome]
  /\ calls = [p \in Procs |-> NoCalls]
  /\ started = 0
  /\ history = [w \in WorkflowIds |-> "none"]
  /\ workflows = [id \in WorkflowIds |-> NoWorkflow]
  /\ form = [NewForm EXCEPT !.name = "Flow", !.workerId = "wk"]
  /\ toasts = <<>>
  /\ handled = NoHandled

\* The call handleTestApi makes once workerId and apiAuthToken are non-empty:
\* testApi({ workerId, apiAuthToken, apiConfig, variables, workflowId: workflow?.id })
TestApiFromForm(p) ==
  /\ Truthy(form.workerId) /\ Truthy(form.apiAuthToken)
  /\ TestApi(p, form.workerId, form.apiAuthToken, TestVariables(form), form.workflow)

\* The user types tokens, saves, reopens what was saved and tests the API
\* with the token in the field; the store and the remote API answer.
NextToken ==
  \/ \E w \in {Undefined, "w1"} : OpenForm(w)
  \/ \E t \in TokenArgs : SetApiAuthToken(t)
  \/ \E user \in BOOLEAN : OnSubmit(user, "ok", "w1")
  \/ TestApiFromForm("A")
  \/ PreClear("A", "ok")
  \/ Fetch("A", [status |-> 200, statusText |-> StatusTexts[200],
                 body |-> JsonObject([result |-> "ok"])])
  \/ ResponseJson("A")
  \/ Audit("A", "ok")

SpecToken == InitToken /\ [][NextToken]_vars

\* ------------------------------------------------------ handleTestApi
\* The Test API button takes clicks at all times.
ButtonDisabled_Never(f) == FALSE

\* disabled={testingApi}
ButtonDisabled(f) == f.testingApi

\* What handleTestApi does once `await testApi(...)` of invocation p has
\* settled: toast.success after a return, toast.error in its catch clause,
\* setTestingApi(false) in its finally clause.  waiting: the form while the
\* invocation has not settled.
AwaitTestApi(p, waiting) ==
  /\ IF pc'[p] = "done"
     THEN /\ toasts' =
               Append(toasts,
                      IF outcome'[p].kind = "returned"
                      THEN Toast("success", "API test successful")
                      ELSE Toast("error",
                                 IF InstanceOfError(outcome'[p].error)
                                 THEN outcome'[p].error.message
                                 ELSE "API test failed"))
          /\ form' = [form EXCEPT !.testingApi = FALSE]
     ELSE /\ form' = waiting
          /\ UNCHANGED toasts
  /\ UNCHANGED <<workflows, handled>>

\* A click on the Test API button: handleTestApi up to `await testApi(...)`,
\* and past it when testApi throws at once.  p: the invocation it starts.
HandleTestApi(p) ==
  /\ ~ButtonDisabled(form)
  /\ Len(toasts) < MaxToasts
  /\ IF ~Truthy(form.workerId)
     THEN /\ toasts' = Append(toasts, Toast("error", "Worker ID is required"))
          /\ UNCHANGED <<workflow_logs, pc, req, response, data, error, outcome, calls,
                         started, history, workflows, form, handled>>
     ELSE IF ~Truthy(form.apiAuthToken)
     THEN /\ toasts' = Append(toasts, Toast("error", "Authorization token is required"))
          /\ UNCHANGED <<workflow_logs, pc, req, response, data, error, outcome, calls,
                         started, history, workflows, form, handled>>
     ELSE /\ DoTestApi(p, form.workerId, form.apiAuthToken, TestVariables(form),
                       form.workflow)
          /\ AwaitTestApi(p, [form EXCEPT !.testingApi = TRUE])

\* The steps of an invocation the form started that can end it, each with
\* what handleTestApi does then.
AuditForForm(p, o) == DoAudit(p, o) /\ AwaitTestApi(p, form)

CatchForForm(p, o) == DoCatch(p, o) /\ AwaitTestApi(p, form)

\* The forms a user tests the API from: the form of the saved workflow w1,
\* and forms of a new workflow with the worker and the token typed in, left
\* empty or left at the placeholder.
FormArgs ==
  { [NewForm EXCEPT !.workflow = "w1", !.name = "Flow", !.workerId = "wk",
                    !.apiAuthToken = "Bearer tok"] }
  \cup { [NewForm EXCEPT !.workerId = c[1], !.apiAuthToken = c[2]] :
           c \in CredentialArgs \cup {<<"", "">>} }

InitForm ==
  /\ workflow_logs \in InitialStores
  /\ pc = [p \in Procs |-> "idle"]
  /\ req = [p \in Procs |-> NoReq]
  /\ response = [p \in Procs |-> NoResponse]
  /\ data = [p \in Procs |-> NoData]
  /\ error = [p \in Procs |-> NoError]
  /\ outcome = [p \in Procs |-> NoOutcome]
  /\ calls = [p \in Procs |-> NoCalls]
  /\ started = 0
  /\ history = [w \in WorkflowIds |-> "none"]
  /\ workflows = [id \in WorkflowIds |->
                    IF id = "w1"
                    THEN [name |-> "Flow", worker_id |-> "wk",
                          api_auth_token |-> "Bearer tok"]
                    ELSE NoWorkflow]
  /\ form \in FormArgs
  /\ toasts = <<>>
  /\ handled = NoHandled

\* One form: the user clicks Test API, the store and the remote API answer.
NextForm ==
  \E p \in Procs :
    \/ HandleTestApi(p)
    \/ \E o \in StoreOutcomes : PreClear(p, o)
    \/ \E r \in Responses \cup {NoResponse} : Fetch(p, r)
    \/ ResponseJson(p)
    \/ \E o \in StoreOutcomes : AuditForForm(p, o)
    \/ \E o \in StoreOutcomes : CatchForForm(p, o)

SpecForm == InitForm /\ [][NextForm]_vars

\* ----------------------------------------------------- handleApiError
\* s.includes(sub)
Includes(s, sub) ==
  /\ Len(s) >= Len(sub)
  /\ \E i \in 1..(Len(s) - Len(sub) + 1) : SubSeq(s, i, i + Len(sub) - 1) = sub

\* The checks with the one for "403" made first.
Categories_PermissionFirst ==
  << [code |-> "403", toast |-> "You do not have permission to perform this action.",
      thrown |-> "Permission denied"],
     [code |-> "401", toast |-> "Authentication failed. Please check your API credentials.",
      thrown |-> "Authentication failed"],
     [code |-> "404", toast |-> "The requested resource was not found.",
      thrown |-> "Resource not found"],
     [code |-> "429", toast |-> "Too many requests. Please try again later.",
      thrown |-> "Rate limit exceeded"],
     [code |-> "500", toast |-> "Server error. Please try again later.",
      thrown |-> "Server error"] >>

\* The if statements of handleApiError, in their order: the substring each
\* looks for, the notification it shows and the message of the error it throws.
Categories ==
  << [code |-> "401", toast |-> "Authentication failed. Please check your API credentials.",
      thrown |-> "Authentication failed"],
     [code |-> "403", toast |-> "You do not have permission to perform this action.",
      thrown |-> "Permission denied"],
     [code |-> "404", toast |-> "The requested resource was not found.",
      thrown |-> "Resource not found"],
     [code |-> "429", toast |-> "Too many requests. Please try again later.",
      thrown |-> "Rate limit exceeded"],
     [code |-> "500", toast |-> "Server error. Please try again later.",
      thrown |-> "Server error"] >>

\* What follows the if statements.
UnknownCategory ==
  [code |-> "", toast |-> "An unexpected error occurred", thrown |-> "Unknown error occurred"]

RECURSIVE Classify(_, _)
\* The first if statement, from the i-th on, whose substring the message holds.
Classify(message, i) ==
  IF i > Len(Categories) THEN UnknownCategory
  ELSE IF Includes(message, Categories[i].code) THEN Categories[i]
  ELSE Classify(message, i + 1)

\* A value that is not an Error, though it has a message property.
NotAnError(message) == Err("Object", message)

\* The status codes a message can mention.
Codes == {"401", "403", "404", "429", "500"}

\* The values handleApiError is called with: Errors and other values, whose
\* message mentions no code, one, or two in either order, or digits that only
\* overlap a code.
ErrorArgs ==
  LET messages ==
        {"Failed to fetch", "API request failed: Internal Server Error",
         "status 40 1", "code 14011", "port 5000"}
        \cup {"HTTP " \o c : c \in Codes}
        \cup {cd[1] \o " after " \o cd[2] :
                cd \in {x \in Codes \X Codes : x[1] # x[2]}}
  IN  {Err("Error", m) : m \in messages} \cup {NotAnError(m) : m \in messages}

\* handleApiError(error): one notification, one error thrown.
HandleApiError(e) ==
  /\ Len(toasts) < MaxToasts
  /\ LET category == IF InstanceOfError(e) THEN Classify(e.message, 1)
                     ELSE UnknownCategory
     IN  /\ toasts' = Append(toasts, Toast("error", category.toast))
         /\ handled' = [error |-> e, thrown |-> Err("Error", category.thrown)]
  /\ UNCHANGED <<workflow_logs, pc, req, response, data, error, outcome, calls,
                 started, history, workflows, form>>

NextClassify == \E e \in ErrorArgs : HandleApiError(e)

InitClassify == Init /\ workflow_logs = EmptyBag

SpecClassify == InitClassify /\ [][NextClassify]_vars

\* ------------------------------------------- the response normalisation
\* The fields testApi probes, in its order.
ProbedFields == <<"result", "responseText", "response", "message">>

\* Every decoded object over the probed fields: each of them absent, present
\* and empty, or present with a text of its own.
ProbeBodies ==
  { JsonObject([f \in {g \in DOMAIN a : a[g] # "absent"} |->
                  IF a[f] = "empty" THEN "" ELSE f \o "-text"]) :
      a \in [{"result", "responseText", "response", "message"} ->
               {"absent", "empty", "text"}] }

\* An invocation whose response.json() has just resolved to a body of
\* ProbeBodies: the state ResponseJson leaves, for any request that passed the
\* preconditions and any status.
InitProbe ==
  /\ workflow_logs = EmptyBag
  /\ \E variables \in VariableArgs, workflowId \in WorkflowIdArgs,
        s \in DOMAIN StatusTexts, b \in ProbeBodies :
       /\ req = [p \in Procs |->
                   IF p = "A"
                   THEN [workerId |-> "wk", apiAuthToken |-> "tok",
                         variables |-> variables, workflowId |-> workflowId]
                   ELSE NoReq]
       /\ response = [p \in Procs |->
                        IF p = "A"
                        THEN [status |-> s, statusText |-> StatusTexts[s], body |-> b]
                        ELSE NoResponse]
       /\ data = [p \in Procs |-> IF p = "A" THEN b ELSE NoData]
       /\ calls = [p \in Procs |->
                     IF p = "A"
                     THEN [NoCalls EXCEPT !.fetches = 1,
                                          !.authorization =
                                            AuthorizationHeader("tok"),
                                          !.deletes = IF ShouldPreClear(workflowId)
                                                      THEN 1 ELSE 0]
                     ELSE NoCalls]
  /\ pc = [p \in Procs |-> IF p = "A" THEN "audit" ELSE "idle"]
  /\ error = [p \in Procs |-> NoError]
  /\ outcome = [p \in Procs |-> NoOutcome]
  /\ started = 1
  /\ history = [w \in WorkflowIds |-> "none"]
  /\ workflows = [id \in WorkflowIds |-> NoWorkflow]
  /\ form = NewForm
  /\ toasts = <<>>
  /\ handled = NoHandled

\* The steps of testApi that follow the decoding.
NextProbe ==
  \/ \E o \in StoreOutcomes : Audit("A", o)
  \/ \E o \in StoreOutcomes : Catch("A", o)

SpecProbe == InitProbe /\ [][NextProbe]_vars

\* ================================================================ claims
\* What the claims speak of, read off a finished invocation.
Done(p) == pc[p] = "done"

\* The preconditions as the specification words them.
Rejected(p) ==
  \/ req[p].workerId \in {"", "your-worker-id"}
  \/ req[p].apiAuthToken \in {"", "your-auth-token"}

WorkflowSet(p) == req[p].workflowId \in WorkflowIds
HasWorkflowKey(p) == "workflow" \in DOMAIN req[p].variables

\* fetch resolved with a response whose body is JSON.
Decodable(p) == response[p] # NoResponse /\ response[p].body # NotJson
Is2xx(p) == response[p].status \in 200..299

\* The rows of the insert calls of invocation p, in the order it made them.
InsertedRows(p) == [i \in 1..Len(calls[p].inserts) |-> calls[p].inserts[i].row]

\* ---------------------------------------------------------------- C1
\* C1: a call whose workerId is empty or "your-worker-id", or whose authToken
\* is empty or "your-auth-token", raises and makes no HTTP request, no delete
\* and no insert, whatever workflowId and variables are.
C1_PreconditionFailureTouchesNothing ==
  \A p \in Procs :
    (pc[p] # "idle" /\ Rejected(p)) =>
      /\ Done(p)
      /\ outcome[p].kind = "raised"
      /\ calls[p].fetches = 0
      /\ calls[p].deletes = 0
      /\ calls[p].inserts = <<>>

C1_Witness ==
  \E p \in Procs :
    /\ Done(p)
    /\ req[p].workerId = "your-worker-id"
    /\ req[p].workflowId = "w1"
    /\ HasWorkflowKey(p)
    /\ outcome[p].kind = "raised"
    /\ started = 2

\* ---------------------------------------------------------------- C2
\* C2: an invocation with workflowId set that receives a JSON-decodable
\* non-2xx response inserts exactly one audit row, at level "error", with or
\* without a workflow key among the variables.  (Stated for bodies that
\* decode to an object.)
C2_OneErrorRowOnNon2xx ==
  \A p \in Procs :
    (Done(p) /\ ~Rejected(p) /\ WorkflowSet(p) /\ Decodable(p) /\ ~Is2xx(p)
       /\ data[p].kind = "object") =>
      /\ Len(calls[p].inserts) = 1
      /\ calls[p].inserts[1].row.level = "error"

\* ---------------------------------------------------------------- C3
\* C3: an invocation with workflowId set, a workflow key among the variables
\* and a decodable 2xx response inserts no audit row.
C3_NoRowOnWorkflowSuccess ==
  \A p \in Procs :
    (Done(p) /\ ~Rejected(p) /\ WorkflowSet(p) /\ HasWorkflowKey(p)
       /\ Decodable(p) /\ Is2xx(p)) =>
      calls[p].inserts = <<>>

\* C3 for the bodies that decode to an object: there it holds; the rows of the
\* other cases come from the read of data.result of a null body.
C3_ForObjectBodies ==
  \A p \in Procs :
    (Done(p) /\ ~Rejected(p) /\ WorkflowSet(p) /\ HasWorkflowKey(p)
       /\ Decodable(p) /\ Is2xx(p) /\ data[p].kind = "object") =>
      /\ calls[p].inserts = <<>>
      /\ outcome[p].kind = "returned"

\* ---------------------------------------------------------------- C4
\* C4: an invocation with workflowId set, no workflow key among the variables
\* and a decodable 2xx response inserts exactly one audit row, at level "info"
\* with message "API request successful", and returns a success result.
C4_OneInfoRowOnAdHocSuccess ==
  \A p \in Procs :
    (Done(p) /\ ~Rejected(p) /\ WorkflowSet(p) /\ ~HasWorkflowKey(p)
       /\ Decodable(p) /\ Is2xx(p)) =>
      /\ InsertedRows(p) =
           <<Row(req[p].workflowId, "info", "API request successful")>>
      /\ outcome[p].kind = "returned"

\* C4 for the bodies that decode to an object: the one insert is made, and the
\* result is returned unless that insert call throws.
C4_ForObjectBodies ==
  \A p \in Procs :
    (Done(p) /\ ~Rejected(p) /\ WorkflowSet(p) /\ ~HasWorkflowKey(p)
       /\ Decodable(p) /\ Is2xx(p) /\ data[p].kind = "object") =>
      /\ InsertedRows(p) =
           <<Row(req[p].workflowId, "info", "API request successful")>>
      /\ outcome[p].kind = "returned" <=> error[p] # StoreError

\* ---------------------------------------------------------------- C5
\* The rows of workflow w whose message is "API request successful".
SuccessRowCount(w) ==
  LET hit == {r \in DOMAIN workflow_logs :
                r.workflow_id = w /\ r.message = "API request successful"}
  IN  BagCardinality([r \in hit |-> workflow_logs[r]])

Quiet(w) == \A p \in Procs : ~(InFlight(p) /\ req[p].workflowId = w)

\* history[w] is "dirty" once two invocations for w have overlapped or a store
\* call for w has failed; otherwise it is "cleared" once an invocation for w
\* that passed the preconditions has completed, "rejected" when every completed
\* call for w was stopped by the preconditions, and "none" before any.
\*
\* C5 as amended: after any sequence of invocations for one workflowId that run
\* one after another and whose store calls succeed, at most one row with
\* message "API request successful" exists for that workflow once each
\* invocation has completed, provided at least one of them passed the
\* preconditions.
C5_AtMostOneSuccessRow ==
  \A w \in WorkflowIds :
    (history[w] = "cleared" /\ Quiet(w)) => SuccessRowCount(w) <= 1

\* C5 as claimed: the same after any completed call, a call stopped by the
\* preconditions included.
C5_Original ==
  \A w \in WorkflowIds :
    (history[w] \in {"cleared", "rejected"} /\ Quiet(w)) => SuccessRowCount(w) <= 1

\* The second of two successful ad hoc tests of w1 has completed and its row
\* is the only success row.
C5_Witness ==
  \E p \in Procs :
    /\ Done(p) /\ started = 2
    /\ history["w1"] = "cleared"
    /\ req[p].workflowId = "w1"
    /\ outcome[p].kind = "returned"
    /\ calls[p].deletes = 1
    /\ Len(calls[p].inserts) = 1
    /\ SuccessRowCount("w1") = 1

\* ---------------------------------------------------------------- C6
NetworkFailed(p) == calls[p].fetches = 1 /\ response[p] = NoResponse
DecodeFailed(p) == response[p] # NoResponse /\ response[p].body = NotJson
Non2xx(p) == Decodable(p) /\ ~Is2xx(p)

InsertedErrorRow(p) ==
  \E i \in 1..Len(calls[p].inserts) :
    /\ calls[p].inserts[i].row.level = "error"
    /\ calls[p].inserts[i].row.workflow_id = req[p].workflowId

FromCatch(c) == c.site = "catch"

\* C7: once an error is raised in the pipeline after the preconditions, the
\* catch handler inserts a row if and only if workflowId is set and the
\* variables hold a workflow key, and then exactly one, at level "error",
\* with the error's message.
C7_CatchInsertsIffWorkflowExecution ==
  \A p \in Procs :
    (Done(p) /\ error[p] # NoError) =>
      SelectSeq(calls[p].inserts, FromCatch) =
        IF WorkflowSet(p) /\ HasWorkflowKey(p)
        THEN << [site |-> "catch",
                 row |-> [workflow_id |-> req[p].workflowId,
                          level |-> "error",
                          message |-> error[p].message]] >>
        ELSE << >>

C7_Witness ==
  \E p \in Procs :
    /\ Done(p) /\ NetworkFailed(p)
    /\ WorkflowSet(p) /\ HasWorkflowKey(p)
    /\ Len(calls[p].inserts) = 1
    /\ calls[p].inserts[1].row.message = "Failed to fetch"

\* ---------------------------------------------------------------- C8
\* C8: whenever an error is raised inside the pipeline, the caller receives
\* that same error, also when the catch handler's own insert fails.
C8_OriginalErrorReachesCaller ==
  \A p \in Procs :
    (Done(p) /\ error[p] # NoError) =>
      /\ outcome[p].kind = "raised"
      /\ outcome[p].error = error[p]

\* ---------------------------------------------------------------- C9
\* C9: an invocation that fails by a network exception, a decode failure or a
\* non-2xx response calls logError exactly once, with context {workerId, url,
\* method}, whatever workflowId and variables are; one that returns never
\* calls it.
C9_LogErrorOncePerFailure ==
  \A p \in Procs :
    (Done(p) /\ ~Rejected(p)) =>
      /\ (NetworkFailed(p) \/ DecodeFailed(p) \/ Non2xx(p)) =>
           /\ outcome[p].kind = "raised"
           /\ Len(calls[p].logs) = 1
           /\ calls[p].logs[1].context =
                [workerId |-> req[p].workerId,
                 url |-> ApiConfig.url,
                 method |-> ApiConfig.method]
      /\ outcome[p].kind = "returned" => calls[p].logs = <<>>

C9_Witness ==
  \E p \in Procs :
    /\ Done(p) /\ DecodeFailed(p)
    /\ req[p].workflowId = Undefined
    /\ Len(calls[p].logs) = 1
    /\ calls[p].logs[1].context.workerId = "wk"

\* --------------------------------------------------------------- C10
\* C10 as claimed: no error leaves testApi without a preceding call of
\* logError, precondition failures included.
C10_Original ==
  \A p \in Procs : outcome[p].kind = "raised" => Len(calls[p].logs) >= 1

\* C10 as amended: every error raised after the preconditions have passed
\* leaves testApi after exactly one call of logError; a precondition failure
\* is raised without any.
C10_LoggedUnlessPrecondition ==
  \A p \in Procs :
    outcome[p].kind = "raised" =>
      Len(calls[p].logs) = (IF Rejected(p) THEN 0 ELSE 1)

C10_Witness ==
  \E p \in Procs :
    /\ outcome[p].kind = "raised" /\ ~Rejected(p)
    /\ Non2xx(p)
    /\ Len(calls[p].logs) = 1

\* --------------------------------------------------------------- C11
Present(d, f) == f \in DOMAIN d.fields

\* The first of the probed fields that satisfies Wins, 0 when none does.
FirstField(d, Wins(_, _)) ==
  LET hits == {i \in 1..Len(ProbedFields) : Wins(d, ProbedFields[i])}
  IN  IF hits = {} THEN 0 ELSE CHOOSE i \in hits : \A j \in hits : i <= j

NonEmpty(d, f) == Present(d, f) /\ d.fields[f] # ""

Probed(d, i) == IF i = 0 THEN "No response received" ELSE d.fields[ProbedFields[i]]

\* C11 as claimed: the returned data.response is the value of the first field
\* present in the body, in the order result, responseText, response, message,
\* an empty value included, and "No response received" when none is present.
C11_Original ==
  \A p \in Procs :
    (Done(p) /\ outcome[p].kind = "returned") =>
      outcome[p].response = Probed(data[p], FirstField(data[p], Present))

\* C11 as amended: it is the value of the first field, in that order, that is
\* present with a non-empty value, and "No response received" when there is
\* none: a present field whose value is empty is passed over.
C11_FirstNonEmptyFieldWins ==
  \A p \in Procs :
    (Done(p) /\ outcome[p].kind = "returned") =>
      outcome[p].response = Probed(data[p], FirstField(data[p], NonEmpty))

\* A result present and empty, passed over for the responseText.
C11_Witness ==
  \E p \in Procs :
    /\ Done(p) /\ outcome[p].kind = "returned"
    /\ Present(data[p], "result") /\ data[p].fields["result"] = ""
    /\ Present(data[p], "message")
    /\ outcome[p].response = "responseText-text"

\* ---------------------------------------------------------------- C12
\* The token of invocation p and the Authorization header its request carried.
Sent(p) == calls[p].fetches > 0

\* The header of every request sent follows the prefix rule, starts with
\* "Bearer ", and is left as it is when the rule is applied to it again.
HeaderRule ==
  \A p \in Procs :
    Sent(p) =>
      LET t == req[p].apiAuthToken
          h == calls[p].authorization
      IN  /\ StartsWith(t, "Bearer ") => h = t
          /\ ~StartsWith(t, "Bearer ") => h = "Bearer " \o t
          /\ StartsWith(h, "Bearer ")
          /\ AuthorizationHeader(h) = h

\* A save writes the prefix rule's value for the trimmed token of the field.
SaveRule ==
  \A id \in WorkflowIds :
    workflows'[id] # workflows[id] =>
      LET t == Trim(form.apiAuthToken)
          s == workflows'[id].api_auth_token
      IN  /\ StartsWith(t, "Bearer ") => s = t
          /\ ~StartsWith(t, "Bearer ") => s = "Bearer " \o t
          /\ StartsWith(s, "Bearer ")
          /\ AuthorizationHeader(s) = s

\* C12: Authorization prefixing is idempotent: the header sent for a token t
\* that passed the preconditions is t when t starts with "Bearer " and
\* "Bearer " + t otherwise, so it starts with "Bearer " and prefixing it again
\* changes nothing; WorkflowForm's save stores the same rule's value for the
\* trimmed token.
C12_PrefixingIdempotent == [](HeaderRule) /\ [][SaveRule]_vars

\* A token typed without the prefix was saved with it, the saved workflow was
\* reopened and tested, and the request carried the saved token unchanged.
C12_Witness ==
  /\ workflows["w1"].api_auth_token = "Bearer abc"
  /\ pc["A"] = "done" /\ Sent("A")
  /\ req["A"].workflowId = "w1"
  /\ req["A"].apiAuthToken = workflows["w1"].api_auth_token
  /\ calls["A"].authorization = "Bearer abc"

\* ---------------------------------------------------------------- C13
\* C13: when the remote response is non-2xx, the error testApi raises to the
\* caller carries the HTTP status of that response: its status property
\* equals response.status.
C13_RejectionCarriesStatus ==
  \A p \in Procs :
    (Done(p) /\ Non2xx(p) /\ outcome[p].kind = "raised") =>
      /\ outcome[p].error.status # Undefined
      /\ outcome[p].error.status = response[p].status

\* ---------------------------------------------------------------- C14
\* The rows of a table that carry workflow w.
RowsOf(table, w) == [r \in {x \in DOMAIN table : x.workflow_id = w} |-> table[r]]

\* Invocation p takes this step.
StepOf(p) == pc'[p] # pc[p]

\* C14: invocations for different workflows are isolated: in every
\* interleaving the rows carrying a workflow w change only in a step of an
\* invocation whose workflowId is w; no step deletes or inserts a row of
\* another workflow.
C14_IsolatedAcrossWorkflows ==
  [][\A w \in WorkflowIds :
       RowsOf(workflow_logs', w) # RowsOf(workflow_logs, w) =>
         \E p \in Procs : StepOf(p) /\ req[p].workflowId = w /\ req'[p] = req[p]]_vars

\* A for w1 and B for w2 are in flight together, B has pre-cleared and A has
\* inserted its row, which is in the table.
C14_Witness ==
  /\ pc["A"] = "catch" /\ req["A"].workflowId = "w1"
  /\ Len(calls["A"].inserts) = 1
  /\ calls["A"].inserts[1].row \in DOMAIN workflow_logs
  /\ pc["B"] = "fetch" /\ req["B"].workflowId = "w2"
  /\ calls["B"].deletes = 1

\* ---------------------------------------------------------------- C15
\* Invocation p has inserted the success row of workflow w.
InsertedSuccessRow(p, w) ==
  \E i \in 1..Len(calls[p].inserts) :
    calls[p].inserts[i].row = Row(w, "info", SuccessMessage)

\* C15: two overlapping invocations for the same workflowId race: the
\* pre-clear of B, whenever it runs after A has inserted its success row,
\* deletes that row, so that the successful attempt A is left with no success
\* row recording it (the raced state itself is C15_Witness).
C15_PreClearDeletesOthersSuccessRow ==
  [][\A p \in Procs, q \in Procs :
       ( /\ q # p
         /\ pc[q] = "preclear" /\ pc'[q] = "fetch"
         /\ req[q].workflowId = req[p].workflowId
         /\ InsertedSuccessRow(p, req[p].workflowId) )
       => SuccessRowCount(req[p].workflowId)' = 0]_vars

\* A and B were in flight together for w1; A returned after inserting its
\* success row, B's pre-clear ran after that, and no success row is left.
C15_Witness ==
  /\ req["A"].workflowId = "w1" /\ req["B"].workflowId = "w1"
  /\ history["w1"] = "dirty"
  /\ Done("A") /\ outcome["A"].kind = "returned"
  /\ InsertedSuccessRow("A", "w1")
  /\ pc["B"] = "fetch" /\ calls["B"].deletes = 1
  /\ SuccessRowCount("w1") = 0

\* ---------------------------------------------------------------- C16
\* C16: no retries: every call of testApi sends at most one HTTP request, on
\* every path; after a network exception, a decode failure or a non-2xx
\* response it has sent exactly one and raises the failure from that call.
C16_NoRetries ==
  \A p \in Procs :
    /\ calls[p].fetches <= 1
    /\ (Done(p) /\ (NetworkFailed(p) \/ DecodeFailed(p) \/ Non2xx(p))) =>
         (calls[p].fetches = 1 /\ outcome[p].kind = "raised")

\* A call whose request failed in the network has finished: one request,
\* the failure raised.
C16_Witness ==
  /\ Done("A") /\ NetworkFailed("A")
  /\ calls["A"].fetches = 1
  /\ outcome["A"] = Raised(NetworkError)

\* ---------------------------------------------------------------- C17
\* The order of precedence the classifier is said to follow.
C17_Order == <<"401", "403", "404", "429", "500">>

\* The notification and the thrown message of each category.
C17_Outcome ==
  [c \in Codes \cup {"none"} |->
     CASE c = "401" -> <<"Authentication failed. Please check your API credentials.",
                         "Authentication failed">>
       [] c = "403" -> <<"You do not have permission to perform this action.",
                         "Permission denied">>
       [] c = "404" -> <<"The requested resource was not found.", "Resource not found">>
       [] c = "429" -> <<"Too many requests. Please try again later.",
                         "Rate limit exceeded">>
       [] c = "500" -> <<"Server error. Please try again later.", "Server error">>
       [] OTHER -> <<"An unexpected error occurred", "Unknown error occurred">>]

\* What the last call of handleApiError showed and threw.
C17_Result == <<toasts[Len(toasts)].message, handled.thrown.message>>

\* C17: handleApiError selects the category of the earliest code, in the
\* order 401, 403, 404, 429, 500, that the message of an Error contains,
\* wherever the codes stand in the text; a message with none of them, or a
\* value that is not an Error, gets the Unknown category and the notification
\* "An unexpected error occurred".
C17_FirstCodeInOrderWins ==
  handled # NoHandled =>
    LET m == handled.error.message
        isError == handled.error.name = "Error"
    IN  /\ toasts[Len(toasts)].kind = "error"
        /\ \A i \in 1..Len(C17_Order) :
             ( /\ isError
               /\ Includes(m, C17_Order[i])
               /\ \A j \in 1..(i - 1) : ~Includes(m, C17_Order[j]) )
             => C17_Result = C17_Outcome[C17_Order[i]]
        /\ (~isError \/ \A i \in 1..Len(C17_Order) : ~Includes(m, C17_Order[i]))
             => C17_Result = C17_Outcome["none"]

\* An Error whose message names 500 before 401 was classified as an
\* authentication failure.
C17_Witness ==
  /\ handled.error = Err("Error", "500 after 401")
  /\ handled.thrown.message = "Authentication failed"
  /\ toasts[Len(toasts)].message =
       "Authentication failed. Please check your API credentials."

\* ---------------------------------------------------------------- C18
\* Invocation p takes its pre-clear step.
PreClearStep(p) == pc[p] = "preclear" /\ StepOf(p)

\* The table after the step holds no row of workflow w with the success
\* message and every other row as often as before.
ExactlyCleared(w) ==
  /\ DOMAIN workflow_logs' \subseteq DOMAIN workflow_logs
  /\ \A r \in DOMAIN workflow_logs :
       IF r.workflow_id = w /\ r.message = "API request successful"
       THEN r \notin DOMAIN workflow_logs'
       ELSE CopiesIn(r, workflow_logs') = workflow_logs[r]

\* C18: the pre-clear step deletes exactly the rows whose workflow_id is the
\* invocation's workflowId and whose message is "API request successful",
\* whatever their level, and leaves every other row as it is; it runs before
\* the HTTP request is sent; and it is the only delete an invocation performs.
C18_PreClearFrame ==
  [][/\ \A p \in Procs :
          PreClearStep(p) =>
            /\ calls'[p].fetches = 0
            /\ IF req[p].workflowId \in WorkflowIds
               THEN ExactlyCleared(req[p].workflowId)
               ELSE workflow_logs' = workflow_logs
     /\ (\E r \in DOMAIN workflow_logs : CopiesIn(r, workflow_logs') < workflow_logs[r])
          => \E p \in Procs : PreClearStep(p) /\ calls[p].deletes = 0
                               /\ calls'[p].deletes = 1]_vars

\* A's failure was recorded at level error with the success message (the
\* remote body's message), and B's pre-clear for the same workflow removed it.
C18_Witness ==
  /\ Done("A") /\ req["A"].workflowId = "w1"
  /\ \E i \in 1..Len(calls["A"].inserts) :
       calls["A"].inserts[i].row = Row("w1", "error", SuccessMessage)
  /\ pc["B"] = "fetch" /\ req["B"].workflowId = "w1" /\ calls["B"].deletes = 1
  /\ calls["B"].fetches = 0
  /\ Row("w1", "error", SuccessMessage) \notin DOMAIN workflow_logs

C20_DecodeFailureAudit ==
  \A p \in Procs :
    (Done(p) /\ DecodeFailed(p)) =>
      /\ outcome[p].kind = "raised"
      /\ \A i \in 1..Len(calls[p].inserts) : calls[p].inserts[i].site # "try"
      /\ IF WorkflowSet(p) /\ HasWorkflowKey(p)
         THEN /\ Len(calls[p].inserts) = 1
              /\ calls[p].inserts[1].row.level = "error"
              /\ calls[p].inserts[1].row.workflow_id = req[p].workflowId
         ELSE Len(calls[p].inserts) = 0

\* A non-2xx response with an undecodable body, for a set workflowId and
\* variables without workflow: raised, and no row inserted.
C20_Witness ==
  /\ Done("A") /\ DecodeFailed("A") /\ ~Is2xx("A")
  /\ WorkflowSet("A") /\ ~HasWorkflowKey("A")
  /\ outcome["A"] = Raised(JsonError)
  /\ calls["A"].inserts = <<>>

\* ---------------------------------------------------------------- C21
\* C21: the pre-clear is best-effort: an invocation that made its pre-clear
\* delete is not aborted by it, however the store ended the delete (done, an
\* error reported, the call thrown): its HTTP request is still sent.
C21_PreClearBestEffort ==
  \A p \in Procs :
    (Done(p) /\ calls[p].deletes = 1) => calls[p].fetches = 1

\* ---------------------------------------------------------------- C22
\* What a finished or unfinished call has given its caller.
OneOutcome(p) ==
  /\ InFlight(p) => outcome[p] = NoOutcome
  /\ Done(p) =>
       /\ outcome[p].kind \in {"returned", "raised"}
       /\ outcome[p].kind = "raised" => outcome[p].error # NoError
       /\ outcome[p].kind = "returned" =>
            /\ outcome[p].success = TRUE
            /\ outcome[p].error = NoError
            /\ req[p].workerId \notin {"", "your-worker-id"}
            /\ req[p].apiAuthToken \notin {"", "your-auth-token"}
            /\ Is2xx(p) /\ Decodable(p)

\* C22: when every collaborator call eventually answers, every call of
\* testApi eventually finishes, with exactly one outcome: it returns
\* {success: true, data: {response}}, only when the preconditions hold, the
\* status is 2xx and the body decoded, or it raises an error; it never
\* returns success false and never does both.
C22_EveryCallFinishesOnce ==
  /\ [](\A p \in Procs : OneOutcome(p))
  /\ \A p \in Procs : InFlight(p) ~> Done(p)

\* A call that went through pre-clear, request, decoding and audit insert
\* has returned.
C22_Witness ==
  /\ Done("A") /\ outcome["A"] = Returned("ok")
  /\ calls["A"].deletes = 1 /\ calls["A"].fetches = 1
  /\ Len(calls["A"].inserts) = 1

\* ---------------------------------------------------------------- C23
\* Invocation p was called without a workflowId.
AdHoc(p) == pc[p] # "idle" /\ req[p].workflowId = Undefined

\* C23: an invocation without workflowId performs no Record Store operation
\* on any path (no pre-clear delete, no insert of the try block, no insert of
\* the catch clause), for every outcome of the HTTP call and every variables
\* map, and none of its steps changes the store.
C23_NoStoreCallWithoutWorkflowId ==
  /\ [](\A p \in Procs :
          AdHoc(p) => (calls[p].deletes = 0 /\ calls[p].inserts = <<>>))
  /\ [][\A p \in Procs :
          (StepOf(p) /\ req'[p].workflowId = Undefined)
            => workflow_logs' = workflow_logs]_vars

\* A call without workflowId whose variables hold workflow met a non-2xx
\* response and raised, after one request and no store call, rows being in
\* the store.
C23_Witness ==
  /\ Done("A") /\ AdHoc("A") /\ HasWorkflowKey("A") /\ Non2xx("A")
  /\ outcome["A"].kind = "raised"
  /\ calls["A"].fetches = 1 /\ calls["A"].deletes = 0 /\ calls["A"].inserts = <<>>
  /\ workflow_logs # EmptyBag

\* ---------------------------------------------------------------- C24
\* Invocation p, started by the form for a saved workflow, returns in this
\* step: its Test API is successful.
TestSucceeds(p) == pc[p] = "audit" /\ pc'[p] = "done" /\ WorkflowSet(p)

\* Every invocation the form started carries the workflow key, set to the
\* workflow name or to the empty string.
CarriesWorkflowKey ==
  \A p \in Procs :
    pc[p] # "idle" =>
      /\ HasWorkflowKey(p)
      /\ req[p].variables["workflow"] = (IF form.name = Undefined THEN "" ELSE form.name)

\* C24: every invocation started by the form's Test API action carries a
\* workflow key in its variables, so a successful Test API of a saved workflow
\* inserts no audit row and (the form never overlapping its tests) leaves
\* zero rows with the message "API request successful" for that workflow,
\* and no Test API action ever inserts a row with that message.
C24_FormTestsLeaveNoSuccessRow ==
  /\ [](/\ CarriesWorkflowKey
        /\ \A p \in Procs : \A i \in 1..Len(calls[p].inserts) :
             calls[p].inserts[i].row.message # SuccessMessage)
  /\ [][\A p \in Procs :
          TestSucceeds(p) =>
            /\ calls'[p].inserts = <<>>
            /\ SuccessRowCount(req[p].workflowId)' = 0]_vars

\* What holds of it: the key is always there, a successful test inserts
\* nothing, no test inserts an info-level row, and a successful test leaves no
\* row with the success message when every store call for the workflow so
\* far was carried out.
C24_ForCarriedOutStoreCalls ==
  /\ [](/\ CarriesWorkflowKey
        /\ \A p \in Procs : \A i \in 1..Len(calls[p].inserts) :
             /\ calls[p].inserts[i].row.level = "error"
             /\ calls[p].inserts[i].row.message = SuccessMessage
                  => /\ calls[p].inserts[i].site = "catch"
                     /\ Field(data[p], "message") = SuccessMessage)
  /\ [][\A p \in Procs :
          TestSucceeds(p) =>
            /\ calls'[p].inserts = <<>>
            /\ history'[req[p].workflowId] # "dirty"
                 => SuccessRowCount(req[p].workflowId)' = 0]_vars

\* ---------------------------------------------------------------- C25
\* The invocations in flight.
InFlightSet == {p \in Procs : InFlight(p)}

\* The form's fields let a click reach testApi.
FieldsFilled == Truthy(form.workerId) /\ Truthy(form.apiAuthToken)

\* In this step an invocation ends: one that was in flight, or one that the
\* preconditions stop in the step that starts it.
TestEnds ==
  \/ Cardinality(InFlightSet') < Cardinality(InFlightSet)
  \/ started' # started /\ InFlightSet' = InFlightSet

\* The notification handleTestApi owes for the invocation ending in this step.
OwedToastKind ==
  IF \E p \in Procs : InFlight(p) /\ pc'[p] = "done" /\ outcome'[p].kind = "returned"
  THEN "success" ELSE "error"

\* C25: in one WorkflowForm the testingApi flag is true exactly while an
\* invocation started by its Test API button is in flight, so the form never
\* has two invocations in flight; the flag is false again when the invocation
\* returns or raises; each Test API action that reaches testApi produces
\* exactly one notification, success when testApi returned and error
\* otherwise; with an empty workerId or token the action shows an error and
\* never calls testApi.
C25_TestingApiFlag ==
  /\ [](/\ form.testingApi <=> InFlightSet # {}
        /\ Cardinality(InFlightSet) <= 1
        /\ FieldsFilled => Len(toasts) = started - Cardinality(InFlightSet)
        /\ ~FieldsFilled =>
             /\ started = 0
             /\ \A i \in 1..Len(toasts) : toasts[i].kind = "error")
  /\ [][/\ TestEnds =>
             /\ ~form'.testingApi
             /\ Len(toasts') = Len(toasts) + 1
             /\ toasts'[Len(toasts')].kind = OwedToastKind
        /\ (~TestEnds /\ started' # started) =>
             (form'.testingApi /\ toasts' = toasts)
        /\ (~TestEnds /\ started' = started /\ toasts' # toasts) =>
             (~FieldsFilled /\ pc' = pc /\ Len(toasts') = Len(toasts) + 1
              /\ toasts'[Len(toasts')].kind = "error")]_vars

\* After a successful test the second one is in flight: the flag is set, one
\* notification has been shown.
C25_Witness ==
  /\ form.testingApi
  /\ Cardinality(InFlightSet) = 1
  /\ started = 2
  /\ toasts = <<Toast("success", "API test successful")>>
====
